---- MODULE Spec2Model ----
(***************************************************************************)
(* A model of the at.py AT-command terminal: the Phone protocol engine of  *)
(* src/src/at.py (start, _collect, _handle_messages, exec_AT, dispatch,    *)
(* wait_for), driven by the handlers of src/test.py, and the Message codec *)
(* of src/src/Message.py.                                                  *)
(*                                                                         *)
(* Byte strings and str values are sequences of one-character strings.     *)
(* The asyncio event loop is cooperative: a task runs until it awaits.     *)
(* _collect awaits only while it processes a line, so a collector that is  *)
(* polling an empty input buffer keeps the loop and no other task runs.    *)
(***************************************************************************)
EXTENDS Integers, Sequences, FiniteSets, TLC

VARIABLES
  ready,             \* Phone.ready
  at_resp_complete,  \* Phone.at_resp_complete
  waiters,           \* Phone._waiters: event name -> list of waiter ids
  futs,              \* waiter id -> its predicate and the state of its future
  written,           \* the bytes of the last write submitted to the stream
  respSinceWrite,    \* history: a response line was handled since that write
  cpc,               \* per _collect task: its position
  clines,            \* per _collect task: the lines left in its for loop
  cbuf,              \* per _collect task: in_buffer_waiting
  cnbuf,             \* history: number of reads held in in_buffer_waiting
  wire,              \* bytes the modem has sent that have not arrived yet
  inbuf,             \* bytes waiting in the serial input buffer
  nsent,             \* number of lines the modem has sent
  spc,               \* position of the start() coroutine
  sw,                \* the waiter the start() coroutine is suspended on
  nstarts,           \* number of start() calls made
  okSinceHs,         \* history: an "OK" line was handled since the handshake
  nready,            \* history: number of ready events dispatched
  finalSinceWrite,   \* history: an "OK" or "ERROR" line was handled since the
                     \* last write
  last,              \* history: what the step just taken did for its caller
  mpc,               \* position of the task that builds and parses a message
  msg,               \* the Message it has constructed
  mstr,              \* str(msg)
  parsed,            \* what Message.from_payload(mstr) gave
  ppc,               \* position of the task that parses a parameter body
  pbody,             \* the parameter body handed to _parse_parameters
  pslots,            \* history: the slots the body was written from
  pout,              \* what _parse_parameters(pbody) gave
  gpc,               \* position of the task that encodes and decodes a text
  gtext,             \* the text handed to Default.encode
  gpdu,              \* what Default.encode(gtext) gave
  gdec,              \* what Default.decode of that gave
  afield             \* what AddressField(address_type, number) gave

vars == <<ready, at_resp_complete, waiters, futs, written, respSinceWrite,
          cpc, clines, cbuf, cnbuf, wire, inbuf, nsent, spc, sw, nstarts,
          okSinceHs, nready, finalSinceWrite, last, mpc, msg, mstr, parsed,
          ppc, pbody, pslots, pout, gpc, gtext, gpdu, gdec, afield>>

----------------------------------------------------------------------------
\* Bounds of the model

MaxLines == 2      \* lines the modem sends in one behaviour
MaxWaiters == 2    \* futures of wait_for calls alive at one time
MaxStarts == 2     \* start() calls in one behaviour

----------------------------------------------------------------------------
\* Bytes and lines

CR == "\r"
LF == "\n"
CRLF == <<CR, LF>>

LineOK == <<"O", "K">>
LineERROR == <<"E", "R", "R", "O", "R">>
LineCSQ == <<"+", "C", "S", "Q">>
LineRING == <<"R", "I", "N", "G">>

\* The lines the modem may send (each is followed by CR LF on the wire)
ModemLines == {LineOK, LineERROR, LineCSQ, LineRING}

NoPayload == <<"None">>

IsPrefix(p, s) == Len(p) <= Len(s) /\ SubSeq(s, 1, Len(p)) = p

\* bytes.endswith(b"\r\n")
EndsWithCRLF(b) == Len(b) >= 2 /\ b[Len(b) - 1] = CR /\ b[Len(b)] = LF

RECURSIVE SplitFrom(_, _, _, _)
SplitFrom(b, i, cur, acc) ==
  IF i > Len(b) THEN (IF cur = <<>> THEN acc ELSE Append(acc, cur))
  ELSE IF b[i] = CR /\ i < Len(b) /\ b[i + 1] = LF
       THEN SplitFrom(b, i + 2, <<>>, Append(acc, cur))
  ELSE IF b[i] = CR \/ b[i] = LF
       THEN SplitFrom(b, i + 1, <<>>, Append(acc, cur))
  ELSE SplitFrom(b, i + 1, Append(cur, b[i]), acc)

\* bytes.splitlines(): breaks at \r\n, \r and \n, no trailing empty line
SplitLines(b) == SplitFrom(b, 1, <<>>, <<>>)

\* the for loop of _collect skips empty lines
NonEmptyLines(ls) == SelectSeq(ls, LAMBDA l : l # <<>>)

----------------------------------------------------------------------------
\* The Message codec (src/src/Message.py): characters and values

MaxNodes == 3      \* values and lists in the parameter list of a message

\* the longest text handed to Default.encode, in characters
MaxText == 8

Digits == <<"0", "1", "2", "3", "4", "5", "6", "7", "8", "9">>
DigitChars == {Digits[i] : i \in 1 .. 10}
DigitVal(c) == (CHOOSE i \in 1 .. 10 : Digits[i] = c) - 1

Letters ==
  {"A", "B", "C", "D", "E", "F", "G", "H", "I", "J", "K", "L", "M", "N", "O",
   "P", "Q", "R", "S", "T", "U", "V", "W", "X", "Y", "Z", "a", "b", "c", "d",
   "e", "f", "g", "h", "i", "j", "k", "l", "m", "n", "o", "p", "q", "r", "s",
   "t", "u", "v", "w", "x", "y", "z"}

\* the characters of \w and \s in the regular expressions; str.strip()
WordChars == DigitChars \cup Letters \cup {"_"}
Whitespace == {" ", "\t", "\n", "\r", "\f"}
IsSpace(c) == c \in Whitespace

\* the character class [+\\\^$@#&%] of both regular expressions
Special == {"+", "\\", "^", "$", "@", "#", "&", "%"}

RECURSIVE LStrip(_, _)
LStrip(s, cs) == IF Len(s) > 0 /\ s[1] \in cs THEN LStrip(Tail(s), cs) ELSE s

RECURSIVE RStrip(_, _)
RStrip(s, cs) ==
  IF Len(s) > 0 /\ s[Len(s)] \in cs THEN RStrip(SubSeq(s, 1, Len(s) - 1), cs)
  ELSE s

\* str.strip(chars)
Strip(s, cs) == RStrip(LStrip(s, cs), cs)

RECURSIVE NatToStr(_)
NatToStr(n) ==
  IF n < 10 THEN <<Digits[n + 1]>>
  ELSE NatToStr(n \div 10) \o <<Digits[(n % 10) + 1]>>

\* str(n) of an int
IntToStr(n) == IF n < 0 THEN <<"-">> \o NatToStr(0 - n) ELSE NatToStr(n)

RECURSIVE DigitsVal(_, _)
\* the value of a string of digits, acc being the value of those read
DigitsVal(s, acc) ==
  IF s = <<>> THEN acc ELSE DigitsVal(Tail(s), 10 * acc + DigitVal(s[1]))

RECURSIVE CountWhile(_, _, _)
\* the number of characters of s from position i on that are in cs
CountWhile(s, i, cs) ==
  IF i <= Len(s) /\ s[i] \in cs THEN 1 + CountWhile(s, i + 1, cs) ELSE 0

\* int(val): surrounding whitespace, an optional sign, digits
ParseInt(val) ==
  LET s == Strip(val, Whitespace)
      signed == Len(s) > 0 /\ s[1] \in {"+", "-"}
      body == IF signed THEN Tail(s) ELSE s
  IN IF Len(body) > 0 /\ CountWhile(body, 1, DigitChars) = Len(body)
     THEN [ok |-> TRUE,
           val |-> IF signed /\ s[1] = "-" THEN 0 - DigitsVal(body, 0)
                   ELSE DigitsVal(body, 0)]
     ELSE [ok |-> FALSE, val |-> 0]

\* re.match("(\d+)-(\d+)", content)
RangeMatch(content) ==
  LET n1 == CountWhile(content, 1, DigitChars)
      n2 == CountWhile(content, n1 + 2, DigitChars)
  IN IF n1 >= 1 /\ Len(content) > n1 /\ content[n1 + 1] = "-" /\ n2 >= 1
     THEN [ok |-> TRUE,
           upper |-> DigitsVal(SubSeq(content, 1, n1), 0),
           lower |-> DigitsVal(SubSeq(content, n1 + 2, n1 + 1 + n2), 0)]
     ELSE [ok |-> FALSE, upper |-> 0, lower |-> 0]

\* The values of a parameter list: an int, a str, a list, a range, None
PInt(n) == [k |-> "int", v |-> <<n>>]
PStr(s) == [k |-> "str", v |-> s]
PList(l) == [k |-> "list", v |-> l]
PRange(start, stop) == [k |-> "range", v |-> <<start, stop>>]
PNone == [k |-> "None", v |-> <<>>]

\* Message.types, by the names of its members
Types == {"EXECUTE", "BASIC_RESPONSE", "RESPONSE", "SET", "READ", "TEST"}

\* the value of a member of Message.types
TypeValue(t) ==
  CASE t = "EXECUTE" -> <<>>
    [] t = "BASIC_RESPONSE" -> <<"<">>
    [] t = "RESPONSE" -> <<":">>
    [] t = "SET" -> <<"=">>
    [] t = "READ" -> <<"?">>
    [] t = "TEST" -> <<"=", "?">>

\* the prefix None of an inbound message
None == <<"None">>
PrefixAT == <<"A", "T">>

\* Message.__init__; parameters is a list (the constructor turns None into [])
Message(prefix, command, type, outbound, parameters) ==
  [prefix |-> prefix, command |-> command, type |-> type,
   outbound |-> outbound, parameters |-> parameters]

NoMessage == Message(None, <<>>, "", FALSE, <<>>)

----------------------------------------------------------------------------
\* Message._stringify_params and Message.__str__

RECURSIVE stringify_params(_)
RECURSIVE StringifyLoop(_, _)

\* the for loop of _stringify_params from parameter i on: the value of res
StringifyLoop(params, i) ==
  IF i > Len(params) THEN <<>>
  ELSE LET param == params[i]
           piece ==
             CASE param.k = "list" ->
                    <<"(">> \o stringify_params(param.v) \o <<")", ",">>
               [] param.k = "str" -> <<"\"">> \o param.v \o <<"\"", ",">>
               [] param.k = "range" ->
                    <<"(">> \o IntToStr(param.v[1]) \o <<"-">>
                      \o IntToStr(param.v[2]) \o <<")", ",">>
               [] param.k = "None" -> <<",">>
               [] param.k = "int" -> IntToStr(param.v[1]) \o <<",">>
       IN piece \o StringifyLoop(params, i + 1)

stringify_params(params) ==
  IF Len(params) = 1 /\ params[1].k = "str" THEN params[1].v
  ELSE LET res == StringifyLoop(params, 1)
       IN SubSeq(res, 1, Len(res) - 1)

\* Message.__str__
Str(m) ==
  (IF m.prefix = None THEN <<>> ELSE m.prefix)
    \o m.command
    \o (IF TypeValue(m.type) = <<"<">> THEN <<>> ELSE TypeValue(m.type))
    \o (IF m.type = "RESPONSE" THEN <<" ">> ELSE <<>>)
    \o stringify_params(m.parameters)

----------------------------------------------------------------------------
\* Message._parse_parameters

Bracket(open) == [type |-> "bracket", content |-> open]
Separator == [type |-> "separator", content |-> None]
Literal(s) == [type |-> "literal", content |-> s]

\* the tokens with the literal under construction appended, if there is one
Flush(tokens, literal) ==
  IF Len(literal) > 0 THEN Append(tokens, Literal(literal)) ELSE tokens

RECURSIVE Tokenize(_, _, _, _)
\* the tokenization loop from character i on; literal is <<>> for None
Tokenize(parambody, i, literal, tokens) ==
  IF i > Len(parambody) THEN Flush(tokens, literal)
  ELSE LET c == parambody[i]
       IN IF c = "("
          THEN Tokenize(parambody, i + 1, literal, Append(tokens, Bracket(TRUE)))
          ELSE IF c = ")"
          THEN Tokenize(parambody, i + 1, <<>>,
                        Append(Flush(tokens, literal), Bracket(FALSE)))
          ELSE IF c = ","
          THEN Tokenize(parambody, i + 1, <<>>,
                        Append(Flush(tokens, literal), Separator))
          ELSE Tokenize(parambody, i + 1, Append(literal, c), tokens)

RECURSIVE ScanList(_, _, _, _)
\* the inner while loop, which collects the content of an open list from
\* token i on; err: it ran past the last token (IndexError)
ScanList(tokens, i, open_brackets, cont) ==
  IF i > Len(tokens) THEN [err |-> TRUE, i |-> i, cont |-> cont]
  ELSE LET t == tokens[i]
       IN IF (t.type = "bracket" /\ ~t.content) /\ open_brackets = 0
          THEN [err |-> FALSE, i |-> i, cont |-> cont]
          ELSE IF t.type = "bracket"
          THEN IF t.content
               THEN ScanList(tokens, i + 1, open_brackets + 1, cont)
               ELSE IF open_brackets - 1 = 0
                    THEN [err |-> FALSE, i |-> i, cont |-> cont]
                    ELSE ScanList(tokens, i + 1, open_brackets - 1, cont)
          ELSE ScanList(tokens, i + 1, open_brackets, Append(cont, t))

\* the value appended for a literal token
LiteralValue(content) ==
  LET m == RangeMatch(content)
      num == ParseInt(content)
  IN IF m.ok THEN PRange(m.upper, m.lower)
     ELSE IF num.ok THEN PInt(num.val)
     ELSE PStr(Strip(content, {"\""}))

RECURSIVE ParseLoop(_, _, _, _)
\* the outer while loop from token i on (i counts from 1, the code from 0)
ParseLoop(tokens, i, params, open_list) ==
  IF i > Len(tokens) THEN [err |-> FALSE, params |-> params]
  ELSE IF open_list
  THEN LET sc == ScanList(tokens, i, 0, <<>>)
           inner == ParseLoop(sc.cont, 1, <<>>, FALSE)
       IN IF sc.err \/ inner.err THEN [err |-> TRUE, params |-> <<>>]
          ELSE ParseLoop(tokens, sc.i + 1,
                         Append(params, PList(inner.params)), FALSE)
  ELSE LET t == tokens[i]
       IN IF t.type = "bracket"
          THEN ParseLoop(tokens, i + 1, params, t.content)
          ELSE IF t.type = "separator"
          THEN ParseLoop(tokens, i + 1,
                         IF Len(tokens) <= i - 1 /\ tokens[i + 1].type = "separator"
                         THEN Append(params, PNone) ELSE params,
                         FALSE)
          ELSE ParseLoop(tokens, i + 1, Append(params, LiteralValue(t.content)),
                         FALSE)

\* Message._parse_parameters(parambody) of a str
parse_parameters(parambody) ==
  ParseLoop(Tokenize(Strip(parambody, Whitespace), 1, <<>>, <<>>), 1, <<>>, FALSE)

----------------------------------------------------------------------------
\* Message.from_payload

BasicResponses ==
  { <<"O", "K">>,
    <<"C", "O", "N", "N", "E", "C", "T">>,
    <<"R", "I", "N", "G">>,
    <<"N", "O", " ", "C", "A", "R", "R", "I", "E", "R">>,
    <<"E", "R", "R", "O", "R">>,
    <<"N", "O", " ", "D", "I", "A", "L", "T", "O", "N", "E">>,
    <<"B", "U", "S", "Y">>,
    <<"N", "O", " ", "A", "N", "S", "W", "E", "R", " ">> }

\* the group (:|=\?|=|\?|\s)? at position pos of s: <<>> when it is absent
TypeGroup(s, pos) ==
  IF pos > Len(s) THEN <<>>
  ELSE IF s[pos] = ":" THEN <<":">>
  ELSE IF s[pos] = "=" /\ pos < Len(s) /\ s[pos + 1] = "?" THEN <<"=", "?">>
  ELSE IF s[pos] = "=" THEN <<"=">>
  ELSE IF s[pos] = "?" THEN <<"?">>
  ELSE IF IsSpace(s[pos]) THEN <<s[pos]>>
  ELSE <<>>

\* re.match(r"([+\\\^$@#&%]?\w+)(:|=\?|=|\?|\s)?(.*)", s)
ATMatch(s) ==
  LET p == IF Len(s) > 0 /\ s[1] \in Special THEN 1 ELSE 0
      n == CountWhile(s, p + 1, WordChars)
      g2 == TypeGroup(s, p + n + 1)
  IN IF n = 0 THEN [ok |-> FALSE, g1 |-> <<>>, g2 |-> <<>>, g3 |-> <<>>]
     ELSE [ok |-> TRUE, g1 |-> SubSeq(s, 1, p + n), g2 |-> g2,
           g3 |-> SubSeq(s, p + n + 1 + Len(g2), Len(s))]

\* re.match(r"([+\\\^$@#&%]?[\w\s]+):(.*)", s)
ResponseMatch(s) ==
  LET p == IF Len(s) > 0 /\ s[1] \in Special THEN 1 ELSE 0
      n == CountWhile(s, p + 1, WordChars \cup Whitespace)
  IN IF n >= 1 /\ Len(s) > p + n /\ s[p + n + 1] = ":"
     THEN [ok |-> TRUE, g1 |-> SubSeq(s, 1, p + n),
           g2 |-> SubSeq(s, p + n + 2, Len(s))]
     ELSE [ok |-> FALSE, g1 |-> <<>>, g2 |-> <<>>]

\* Message.types(value): the member with that value, "" when there is none
TypeOfValue(val) ==
  IF \E t \in Types : TypeValue(t) = val
  THEN CHOOSE t \in Types : TypeValue(t) = val
  ELSE ""

\* what a call of from_payload gives: a Message (ret "Message"), None, or
\* the exception it raises
Returned(m) == [ret |-> "Message", msg |-> m]
ReturnedNone == [ret |-> "None", msg |-> NoMessage]
Raised(e) == [ret |-> e, msg |-> NoMessage]

\* the Message built from the parsed parameter body ps, or the IndexError
\* _parse_parameters raised
WithParameters(prefix, command, type, outbound, ps) ==
  IF ps.err THEN Raised("IndexError")
  ELSE Returned(Message(prefix, command, type, outbound, ps.params))

\* the branch of from_payload for a payload that starts with "AT"
FromCommand(match) ==
  IF ~match.ok THEN Raised("TypeError")
  ELSE IF match.g2 = <<>>
  THEN WithParameters(PrefixAT, match.g1, "EXECUTE", TRUE,
                      parse_parameters(match.g3))
  ELSE IF TypeOfValue(match.g2) = "" THEN Raised("ValueError")
  ELSE WithParameters(PrefixAT, match.g1, TypeOfValue(match.g2), TRUE,
                      parse_parameters(match.g3))

\* the last branch of from_payload: a response, or None
FromResponse(match) ==
  IF ~match.ok THEN ReturnedNone
  ELSE WithParameters(None, match.g1, "RESPONSE", FALSE,
                      parse_parameters(match.g2))

from_payload(payload) ==
  IF payload \in BasicResponses
  THEN Returned(Message(None, payload, "BASIC_RESPONSE", FALSE, <<>>))
  ELSE IF IsPrefix(PrefixAT, payload)
  THEN FromCommand(ATMatch(SubSeq(payload, 3, Len(payload))))
  ELSE FromResponse(ResponseMatch(payload))

----------------------------------------------------------------------------
\* The commands written by start(), test.py and get_available_commands

CmdNone == <<>>
CmdCSQ == <<"+", "C", "S", "Q">>
CmdCIND == <<"+", "C", "I", "N", "D", "?">>
NameCLAC == <<"+", "C", "L", "A", "C">>
CmdCLAC == Str(Message(<<>>, NameCLAC, "EXECUTE", TRUE, <<>>))

----------------------------------------------------------------------------
\* Events, predicates and futures

Events == {"response", "message", "ready"}

\* "any"      the default predicate of wait_for (always true)
\* "isOK"     lambda resp: resp == "OK"                 (start)
\* "isCSQ"    lambda resp: resp.startswith("+CSQ")      (on_ready)
\* "cmdCLAC"  lambda m: Message.from_payload(m).command == "+CLAC"
Conds == {"any", "isOK", "isCSQ", "cmdCLAC"}

Waiter == 1 .. MaxWaiters

NoFut == [evt |-> "", cond |-> "", st |-> "unused", val |-> <<>>]

InTable(tbl, w) == \E e \in DOMAIN tbl : \E i \in 1 .. Len(tbl[e]) : tbl[e][i] = w

\* Futures are reference counted: one that is done, is in no waiter list and
\* is not awaited by the suspended start() coroutine (keep) is freed, and
\* its slot can hold the future of a later wait_for call.
Release(fs, tbl, keep) ==
  [w \in DOMAIN fs |->
     IF fs[w].st \in {"result", "exception", "cancelled"} /\ w # keep
        /\ ~InTable(tbl, w)
     THEN NoFut ELSE fs[w]]


\* the predicate cond called on the payload pl: "true", "false" or "raise".
\* A dispatch without arguments (the ready event) calls cond(): a one-argument
\* lambda then raises TypeError.
\* m.command == "+CLAC" for what from_payload gave: it raises what
\* from_payload raised, and AttributeError when m is None
CommandIsCLAC(m) ==
  IF m.ret # "Message" THEN "raise"
  ELSE IF m.msg.command = NameCLAC THEN "true" ELSE "false"

\* lambda message: Message.from_payload(message).command == "+CLAC"
EvalCLAC(pl) == CommandIsCLAC(from_payload(pl))

Eval(cond, pl) ==
  IF cond = "any" THEN "true"
  ELSE IF pl = NoPayload THEN "raise"
  ELSE IF cond = "isOK" THEN (IF pl = LineOK THEN "true" ELSE "false")
  ELSE IF cond = "isCSQ" THEN (IF IsPrefix(LineCSQ, pl) THEN "true" ELSE "false")
  ELSE EvalCLAC(pl)

\* del lst[i]
DelIdx(lst, i) ==
  IF i < 1 \/ i > Len(lst) THEN lst
  ELSE SubSeq(lst, 1, i - 1) \o SubSeq(lst, i + 1, Len(lst))

RECURSIVE DelAll(_, _)
\* for i in to_remove[::-1]: del lst[i]
DelAll(lst, rm) ==
  IF rm = <<>> THEN lst
  ELSE DelAll(DelIdx(lst, rm[Len(rm)]), SubSeq(rm, 1, Len(rm) - 1))

RECURSIVE DispatchLoop(_, _, _, _, _)
RECURSIVE DispatchWaiter(_, _, _, _, _, _)

\* one pass of the loop of dispatch, for waiter i of the list, whose
\* predicate gave r. set_result and set_exception raise InvalidStateError on
\* a future that is already done (resolved, failed or cancelled); the error
\* leaves the loop.
DispatchWaiter(lst, i, pl, fs, rm, r) ==
  IF r = "false" THEN DispatchLoop(lst, i + 1, pl, fs, rm)
  ELSE IF fs[lst[i]].st # "pending"
  THEN [futs |-> fs, rm |-> rm, raised |-> TRUE]
  ELSE DispatchLoop(lst, i + 1, pl,
         [fs EXCEPT ![lst[i]].st = IF r = "true" THEN "result" ELSE "exception",
                    ![lst[i]].val = pl],
         Append(rm, i))

\* the loop of dispatch over the waiters of one event, from index i on
DispatchLoop(lst, i, pl, fs, rm) ==
  IF i > Len(lst) THEN [futs |-> fs, rm |-> rm, raised |-> FALSE]
  ELSE DispatchWaiter(lst, i, pl, fs,
                      IF fs[lst[i]].st = "cancelled" THEN Append(rm, i) ELSE rm,
                      Eval(fs[lst[i]].cond, pl))

\* the end of the waiter part of dispatch: the entries are deleted unless
\* the loop raised
DispatchEnd(evt, tbl, d) ==
  [futs |-> d.futs,
   tbl |-> IF d.raised THEN tbl ELSE [tbl EXCEPT ![evt] = DelAll(tbl[evt], d.rm)],
   raised |-> d.raised]

\* the waiter part of dispatch(evt, pl) on the table tbl and the futures fs
Dispatch(evt, pl, tbl, fs) ==
  IF tbl[evt] = <<>> THEN [futs |-> fs, tbl |-> tbl, raised |-> FALSE]
  ELSE DispatchEnd(evt, tbl, DispatchLoop(tbl[evt], 1, pl, fs, <<>>))

\* the slots free for the future of a new wait_for call
FreeSlots == {w \in Waiter : futs[w].st = "unused"}
NewSlot == CHOOSE w \in FreeSlots : \A v \in FreeSlots : w <= v

\* wait_for(evt, cond) up to its await: the new table and futures
Register(evt, cond, tbl, fs, w) ==
  [tbl |-> [tbl EXCEPT ![evt] = Append(tbl[evt], w)],
   futs |-> [fs EXCEPT ![w] = [evt |-> evt, cond |-> cond,
                               st |-> "pending", val |-> <<>>]]]

----------------------------------------------------------------------------
\* exec_AT

\* _handle_messages without the startswith("+") test
IsResponseLine_FinalOnly(line) ==
  line = LineOK \/ line = LineERROR

\* a line for which _handle_messages dispatches a response event
IsResponseLine(line) ==
  line = LineOK \/ line = LineERROR \/ (line # <<>> /\ line[1] = "+")

\* exec_AT without the at_resp_complete check
exec_AT_check_NoInFlight(rdy, complete) ==
  IF ~rdy THEN "NotReady" ELSE "ok"

\* the two checks of exec_AT, in the order of the code
exec_AT_check(rdy, complete) ==
  IF ~rdy THEN "NotReady"
  ELSE IF ~complete THEN "CommandInFlight"
  ELSE "ok"

\* bytes(f"AT{cmd}\r", "utf-8")
ATBytes(cmd) == <<"A", "T">> \o cmd \o <<CR>>

\* What the step just taken did for its caller: an exec_AT call (at: the
\* calling site), a start() call that raised in its except clause (at: the
\* phase that timed out) or a dispatch (at: the event; res: "ok", or the
\* error it raised); NoCall after every other step.
Call(op, res, at) == [op |-> op, res |-> res, at |-> at]
NoCall == Call("none", "", "")

----------------------------------------------------------------------------
\* Scheduling: the event loop can run a task step only while no _collect
\* task is spinning in its polling loop.

Collector == 1 .. MaxStarts

\* before _parse_parameters, Default.encode and AddressField were called
NoParse == [err |-> FALSE, params |-> <<>>]
NoPdu == [err |-> FALSE, pdu |-> <<>>]
NoAddressField == [ret |-> "none"]

LoopFree == \A c \in Collector : cpc[c] # "poll"

Init ==
  /\ ready = FALSE
  /\ at_resp_complete = TRUE
  /\ waiters = [e \in Events |-> <<>>]
  /\ futs = [w \in Waiter |-> NoFut]
  /\ written = <<>>
  /\ respSinceWrite = FALSE
  /\ cpc = [c \in Collector |-> "none"]
  /\ clines = [c \in Collector |-> <<>>]
  /\ cbuf = [c \in Collector |-> <<>>]
  /\ cnbuf = [c \in Collector |-> 0]
  /\ wire = <<>>
  /\ inbuf = <<>>
  /\ nsent = 0
  /\ spc = "idle"
  /\ sw = 0
  /\ nstarts = 0
  /\ okSinceHs = FALSE
  /\ nready = 0
  /\ finalSinceWrite = FALSE
  /\ last = NoCall
  /\ mpc = "none"
  /\ msg = NoMessage
  /\ mstr = <<>>
  /\ parsed = ReturnedNone
  /\ ppc = "none"
  /\ pbody = <<>>
  /\ pslots = <<>>
  /\ pout = NoParse
  /\ gpc = "none"
  /\ gtext = <<>>
  /\ gpdu = NoPdu
  /\ gdec = <<>>
  /\ afield = NoAddressField

engineVars == <<ready, at_resp_complete, waiters, futs, written, respSinceWrite,
                spc, sw, nstarts, okSinceHs>>
collectVars == <<cpc, clines, cbuf, cnbuf>>
streamVars == <<wire, inbuf, nsent>>
histVars == <<nready, finalSinceWrite>>
codecVars == <<mpc, msg, mstr, parsed>>
parseVars == <<ppc, pbody, pslots, pout>>
gsmVars == <<gpc, gtext, gpdu, gdec>>
libVars == <<parseVars, gsmVars, afield>>

\* A whole line of the modem reaches the serial input buffer at once
Receive(l) ==
  /\ wire = <<>>
  /\ nsent < MaxLines
  /\ inbuf' = inbuf \o l \o CRLF
  /\ nsent' = nsent + 1
  /\ UNCHANGED <<wire, engineVars, collectVars,
                 histVars, codecVars, libVars>>
  /\ last' = NoCall

\* The modem puts a line on the wire
ModemSend(l) ==
  /\ wire = <<>>
  /\ nsent < MaxLines
  /\ wire' = l \o CRLF
  /\ nsent' = nsent + 1
  /\ UNCHANGED <<inbuf, engineVars, collectVars,
                 histVars, codecVars, libVars>>
  /\ last' = NoCall

\* Some of the bytes on the wire reach the serial input buffer
Arrive ==
  /\ \E k \in 1 .. Len(wire) :
        /\ inbuf' = inbuf \o SubSeq(wire, 1, k)
        /\ wire' = SubSeq(wire, k + 1, Len(wire))
  /\ UNCHANGED <<nsent, engineVars, collectVars,
                 histVars, codecVars, libVars>>
  /\ last' = NoCall

\* the event loop runs a created _collect task: it enters its while loop
CollectStart(c) ==
  /\ cpc[c] = "created"
  /\ LoopFree
  /\ cpc' = [cpc EXCEPT ![c] = "poll"]
  /\ UNCHANGED <<clines, cbuf, cnbuf, engineVars, streamVars,
                 histVars, codecVars, libVars>>
  /\ last' = NoCall

\* one iteration of the while loop of _collect with inWaiting() != 0
CollectRead(c) ==
  /\ cpc[c] = "poll"
  /\ inbuf # <<>>
  /\ inbuf' = <<>>
  /\ IF EndsWithCRLF(inbuf)
     THEN LET ls == NonEmptyLines(SplitLines(cbuf[c] \o inbuf))
          IN /\ cbuf' = [cbuf EXCEPT ![c] = <<>>]
             /\ cnbuf' = [cnbuf EXCEPT ![c] = 0]
             /\ clines' = [clines EXCEPT ![c] = ls]
             /\ cpc' = [cpc EXCEPT ![c] = IF ls = <<>> THEN "poll" ELSE "handle"]
             /\ last' = NoCall
     ELSE /\ cbuf' = [cbuf EXCEPT ![c] = cbuf[c] \o inbuf]
          /\ cnbuf' = [cnbuf EXCEPT ![c] = cnbuf[c] + 1]
          /\ UNCHANGED <<clines, cpc>>
          /\ last' = NoCall
  /\ UNCHANGED <<wire, nsent, engineVars,
                 histVars, codecVars, libVars>>

\* the task _handle_messages(line) for the first line left in the for loop
HandleMessages(c) ==
  /\ cpc[c] = "handle"
  /\ LoopFree
  /\ LET line == Head(clines[c])
         d == Dispatch("response", line, waiters, futs)
     IN IF IsResponseLine(line)
        THEN /\ at_resp_complete' = TRUE
             /\ finalSinceWrite' = (finalSinceWrite \/ line \in {LineOK, LineERROR})
             /\ respSinceWrite' = TRUE
             /\ okSinceHs' = (okSinceHs \/ line = LineOK)
             /\ futs' = Release(d.futs, d.tbl, sw)
             /\ waiters' = d.tbl
             /\ cpc' = [cpc EXCEPT ![c] = IF d.raised THEN "dead" ELSE "msg"]
             /\ clines' = [clines EXCEPT ![c] = IF d.raised THEN <<>> ELSE @]
             /\ last' = Call("dispatch", IF d.raised THEN "InvalidStateError" ELSE "ok",
                             "response")
        ELSE /\ cpc' = [cpc EXCEPT ![c] = "msg"]
             /\ last' = NoCall
             /\ UNCHANGED <<at_resp_complete, respSinceWrite, okSinceHs, futs,
                            waiters, clines, finalSinceWrite>>
  /\ UNCHANGED <<ready, written, spc, sw, nstarts, cbuf, cnbuf, streamVars,
                 nready, codecVars, libVars>>

\* await self.dispatch("message", line) in _collect; the on_message handler
\* of test.py runs as a task, so _collect awaits it
DispatchMessage(c) ==
  /\ cpc[c] = "msg"
  /\ LoopFree
  /\ LET line == Head(clines[c])
         d == Dispatch("message", line, waiters, futs)
     IN /\ futs' = Release(d.futs, d.tbl, sw)
        /\ waiters' = d.tbl
        /\ cpc' = [cpc EXCEPT ![c] = IF d.raised THEN "dead" ELSE "next"]
        /\ clines' = [clines EXCEPT ![c] = IF d.raised THEN <<>> ELSE @]
        /\ last' = Call("dispatch", IF d.raised THEN "InvalidStateError" ELSE "ok",
                        "message")
  /\ UNCHANGED <<ready, at_resp_complete, written, respSinceWrite, spc,
                 sw, nstarts, okSinceHs, cbuf, cnbuf, streamVars,
                 histVars, codecVars, libVars>>

\* _collect resumes after the message handler: next line, or back to polling
CollectNext(c) ==
  /\ cpc[c] = "next"
  /\ LoopFree
  /\ clines' = [clines EXCEPT ![c] = Tail(@)]
  /\ cpc' = [cpc EXCEPT ![c] = IF Tail(clines[c]) = <<>> THEN "poll" ELSE "handle"]
  /\ UNCHANGED <<cbuf, cnbuf, engineVars, streamVars,
                 histVars, codecVars, libVars>>
  /\ last' = NoCall


----------------------------------------------------------------------------
\* Callers

\* exec_AT(cmd) called from a user task
UserExecAT(cmd) ==
  /\ LoopFree
  /\ LET r == exec_AT_check(ready, at_resp_complete)
     IN /\ at_resp_complete' = IF r = "ok" THEN FALSE ELSE at_resp_complete
        /\ written' = IF r = "ok" THEN ATBytes(cmd) ELSE written
        /\ respSinceWrite' = IF r = "ok" THEN FALSE ELSE respSinceWrite
        /\ finalSinceWrite' = IF r = "ok" THEN FALSE ELSE finalSinceWrite
        /\ last' = Call("exec_AT", r, "user")
  /\ UNCHANGED <<ready, waiters, futs, spc, sw, nstarts, okSinceHs,
                 collectVars, streamVars,
                 nready, codecVars, libVars>>

\* wait_for(evt, cond) called from a user task, up to its await
UserWaitFor(evt, cond) ==
  /\ LoopFree
  /\ FreeSlots # {}
  /\ LET w == NewSlot
         r == Register(evt, cond, waiters, futs, w)
     IN /\ waiters' = r.tbl
        /\ futs' = r.futs
        /\ last' = NoCall
  /\ UNCHANGED <<ready, at_resp_complete, written, respSinceWrite, spc,
                 sw, nstarts, okSinceHs, collectVars, streamVars,
                 histVars, codecVars, libVars>>

\* what asyncio.wait_for does to the future when the timeout expires
TimeoutFuture(fs, w) == [fs EXCEPT ![w].st = "cancelled"]

\* the timeout of the wait_for call of waiter w expires: asyncio.wait_for
\* cancels the future and raises TimeoutError in the caller
Timeout(w) ==
  /\ LoopFree
  /\ futs[w].st = "pending"
  /\ futs' = TimeoutFuture(futs, w)
  /\ last' = NoCall
  /\ UNCHANGED <<ready, at_resp_complete, waiters, written,
                 respSinceWrite, spc, sw, nstarts, okSinceHs, collectVars,
                 streamVars,
                 histVars, codecVars, libVars>>

----------------------------------------------------------------------------
\* start() and the on_ready handler of test.py

\* start() without the assignment self.ready = False
ReadyDuringHandshake_Kept == TRUE

\* the value start() gives self.ready between the handshake and its "OK"
ReadyDuringHandshake == FALSE

\* an except clause that takes every timeout for a handshake failure
StartTimeoutError_Always(rdy) == "ConnectionRefusedError"

\* the except clause of start(): the error raised for a TimeoutError
StartTimeoutError(rdy) ==
  IF ~rdy THEN "ConnectionRefusedError" ELSE "TimeoutError"

\* start() up to its first await: ready = True, create_task(_collect),
\* exec_AT(), ready = False, wait_for("response", resp == "OK")
StartCall ==
  /\ spc = "idle"
  /\ nstarts < MaxStarts
  /\ at_resp_complete => FreeSlots # {}
  /\ LoopFree
  /\ nstarts' = nstarts + 1
  /\ cpc' = [cpc EXCEPT ![nstarts + 1] = "created"]
  /\ LET r == exec_AT_check(TRUE, at_resp_complete)
         w == NewSlot
         g == Register("response", "isOK", waiters, futs, w)
     IN IF r = "ok"
        THEN /\ at_resp_complete' = FALSE
             /\ written' = ATBytes(CmdNone)
             /\ respSinceWrite' = FALSE
             /\ finalSinceWrite' = FALSE
             /\ okSinceHs' = FALSE
             /\ ready' = ReadyDuringHandshake
             /\ waiters' = g.tbl
             /\ futs' = g.futs
             /\ spc' = "handshake"
             /\ sw' = w
             /\ last' = Call("exec_AT", "ok", "start")
        ELSE /\ ready' = TRUE
             /\ last' = Call("exec_AT", r, "start")
             /\ UNCHANGED <<at_resp_complete, written, respSinceWrite, finalSinceWrite,
                            okSinceHs, waiters, futs, spc, sw>>
  /\ UNCHANGED <<clines, cbuf, cnbuf, streamVars,
                 nready, codecVars, libVars>>

\* start() resumes with the handshake acknowledged: ready = True and
\* dispatch("ready"), whose handler runs as a task
StartAck ==
  /\ spc = "handshake"
  /\ futs[sw].st = "result"
  /\ LoopFree
  /\ ready' = TRUE
  /\ LET d == Dispatch("ready", NoPayload, waiters, futs)
     IN /\ futs' = Release(d.futs, d.tbl, 0)
        /\ waiters' = d.tbl
        /\ sw' = 0
        /\ spc' = IF d.raised THEN "idle" ELSE "on_ready"
        /\ last' = Call("dispatch", IF d.raised THEN "InvalidStateError" ELSE "ok",
                        "ready")
  /\ UNCHANGED <<at_resp_complete, written, respSinceWrite, nstarts,
                 okSinceHs, collectVars, streamVars, codecVars, libVars,
                 finalSinceWrite>>
  /\ nready' = nready + 1

\* a TimeoutError reaches the except clause of start(), from its own wait
\* or from the wait of the on_ready handler
StartTimeout ==
  /\ spc \in {"handshake", "on_ready_wait"}
  /\ futs[sw].st = "cancelled"
  /\ LoopFree
  /\ spc' = "idle"
  /\ sw' = 0
  /\ futs' = Release(futs, waiters, 0)
  /\ last' = Call("start", StartTimeoutError(ready), spc)
  /\ UNCHANGED <<ready, at_resp_complete, waiters, written,
                 respSinceWrite, nstarts, okSinceHs, collectVars, streamVars,
                 histVars, codecVars, libVars>>

\* on_ready of test.py up to its await: exec_AT("+CSQ") and
\* wait_for("response", resp.startswith("+CSQ"))
OnReadyExec ==
  /\ spc = "on_ready"
  /\ FreeSlots # {}
  /\ LoopFree
  /\ LET r == exec_AT_check(ready, at_resp_complete)
         w == NewSlot
         g == Register("response", "isCSQ", waiters, futs, w)
     IN IF r = "ok"
        THEN /\ at_resp_complete' = FALSE
             /\ written' = ATBytes(CmdCSQ)
             /\ respSinceWrite' = FALSE
             /\ finalSinceWrite' = FALSE
             /\ waiters' = g.tbl
             /\ futs' = g.futs
             /\ spc' = "on_ready_wait"
             /\ sw' = w
             /\ last' = Call("exec_AT", "ok", "on_ready")
        ELSE /\ spc' = "idle"
             /\ last' = Call("exec_AT", r, "on_ready")
             /\ UNCHANGED <<at_resp_complete, written, respSinceWrite, finalSinceWrite,
                            waiters, futs, sw>>
  /\ UNCHANGED <<ready, nstarts, okSinceHs, collectVars, streamVars,
                 nready, codecVars, libVars>>

\* on_ready resumes with the +CSQ response and calls exec_AT("+CIND?");
\* start() returns, or raises what exec_AT raised
OnReadyResume ==
  /\ spc = "on_ready_wait"
  /\ futs[sw].st = "result"
  /\ LoopFree
  /\ LET r == exec_AT_check(ready, at_resp_complete)
     IN /\ at_resp_complete' = IF r = "ok" THEN FALSE ELSE at_resp_complete
        /\ written' = IF r = "ok" THEN ATBytes(CmdCIND) ELSE written
        /\ respSinceWrite' = IF r = "ok" THEN FALSE ELSE respSinceWrite
        /\ finalSinceWrite' = IF r = "ok" THEN FALSE ELSE finalSinceWrite
        /\ last' = Call("exec_AT", r, "on_ready2")
  /\ spc' = "idle"
  /\ sw' = 0
  /\ futs' = Release(futs, waiters, 0)
  /\ UNCHANGED <<ready, waiters, nstarts, okSinceHs, collectVars, streamVars,
                 nready, codecVars, libVars>>

----------------------------------------------------------------------------

\* the wait_for calls user tasks make
UserWaits == {<<"response", "any">>, <<"response", "cmdCLAC">>, <<"message", "any">>}

Next ==
  \/ \E l \in ModemLines : Receive(l)
  \/ \E c \in Collector : CollectStart(c)
  \/ \E c \in Collector : CollectRead(c)
  \/ \E c \in Collector : HandleMessages(c)
  \/ \E c \in Collector : DispatchMessage(c)
  \/ \E c \in Collector : CollectNext(c)
  \/ UserExecAT(CmdCLAC)
  \/ \E u \in UserWaits : UserWaitFor(u[1], u[2])
  \/ \E w \in Waiter : Timeout(w)
  \/ StartCall
  \/ StartAck
  \/ StartTimeout
  \/ OnReadyExec
  \/ OnReadyResume

Spec == Init /\ [][Next]_vars

\* The collector on a stream whose bytes arrive in chunks of any size: the
\* modem sends lines, start() launches the collector, no other task runs
FrameNext ==
  \/ \E l \in ModemLines : ModemSend(l)
  \/ Arrive
  \/ StartCall
  \/ \E c \in Collector : CollectStart(c)
  \/ \E c \in Collector : CollectRead(c)
  \/ \E c \in Collector : HandleMessages(c)
  \/ \E c \in Collector : DispatchMessage(c)
  \/ \E c \in Collector : CollectNext(c)

FrameSpec == Init /\ [][FrameNext]_vars

----------------------------------------------------------------------------
\* Messages built by the constructor, serialized and parsed back

NameCPBR == <<"+", "C", "P", "B", "R">>

\* prefix, command and direction for each type of message
MsgHeads ==
  { Message(PrefixAT, NameCPBR, t, TRUE, <<>>) :
      t \in {"EXECUTE", "SET", "READ", "TEST"} }
  \cup { Message(None, CmdCSQ, "RESPONSE", FALSE, <<>>),
         Message(None, LineOK, "BASIC_RESPONSE", FALSE, <<>>) }

\* the values that are not lists: integers, strings, a range, the empty slot
ParamAtoms ==
  {PInt(1), PInt(2), PStr(<<"a", "b">>), PStr(<<"1", "2">>), PRange(1, 5), PNone}

RECURSIVE ParamListsOf(_)
RECURSIVE ParamValuesOf(_)

\* the values made of exactly n values and lists
ParamValuesOf(n) ==
  IF n = 1 THEN ParamAtoms \cup {PList(<<>>)}
  ELSE {PList(l) : l \in ParamListsOf(n - 1)}

\* the parameter lists made of exactly n values and lists
ParamListsOf(n) ==
  IF n = 0 THEN {<<>>}
  ELSE UNION { { <<p>> \o rest : p \in ParamValuesOf(k), rest \in ParamListsOf(n - k) } :
               k \in 1 .. n }

ParamLists == UNION {ParamListsOf(n) : n \in 0 .. MaxNodes}

\* Message(prefix, command, type, outbound, parameters)
Construct(head, parameters) ==
  /\ mpc = "none"
  /\ msg' = Message(head.prefix, head.command, head.type, head.outbound, parameters)
  /\ mpc' = "built"
  /\ UNCHANGED <<mstr, parsed, engineVars, collectVars, streamVars, histVars, last, libVars>>

\* str(msg)
Serialize ==
  /\ mpc = "built"
  /\ mstr' = Str(msg)
  /\ mpc' = "str"
  /\ UNCHANGED <<msg, parsed, engineVars, collectVars, streamVars, histVars, last, libVars>>

\* Message.from_payload(str(msg))
FromPayload ==
  /\ mpc = "str"
  /\ parsed' = from_payload(mstr)
  /\ mpc' = "parsed"
  /\ UNCHANGED <<msg, mstr, engineVars, collectVars, streamVars, histVars, last, libVars>>

MsgNext ==
  \/ \E head \in MsgHeads : \E parameters \in ParamLists : Construct(head, parameters)
  \/ Serialize
  \/ FromPayload

MsgSpec == Init /\ [][MsgNext]_vars

----------------------------------------------------------------------------
\* Parameter bodies and received payloads handed to the parser

\* the values a slot of a parameter body can hold besides a nested list:
\* integers, quoted strings (one with a comma, one with a parenthesis
\* inside) and nothing
SlotAtoms ==
  {PInt(1), PInt(12), PStr(<<"a", "b">>), PStr(<<"a", ",", "b">>),
   PStr(<<"a", "(", "b">>), PNone}

RECURSIVE SlotListsOf(_)
RECURSIVE SlotValuesOf(_)

\* the slot values made of exactly n values and lists
SlotValuesOf(n) ==
  IF n = 1 THEN SlotAtoms
  ELSE {PList(l) : l \in SlotListsOf(n - 1)}

\* the slot lists made of exactly n values and lists; a list is read back
\* from its text without ambiguity: it has a slot, and more than one if its
\* slot is empty
SlotListsOf(n) ==
  IF n = 0 THEN {<<>>}
  ELSE { ps \in UNION { { <<p>> \o rest : p \in SlotValuesOf(k),
                                          rest \in SlotListsOf(n - k) } :
                        k \in 1 .. n } :
         Len(ps) = 1 => ps[1].k # "None" }

SlotLists == UNION {SlotListsOf(n) : n \in 1 .. MaxNodes}

RECURSIVE BodyOf(_)
\* the text of one slot: base-10 digits, a quoted literal, a parenthesized
\* group, or nothing
SlotText(p) ==
  IF p.k = "int" THEN IntToStr(p.v[1])
  ELSE IF p.k = "str" THEN <<"\"">> \o p.v \o <<"\"">>
  ELSE IF p.k = "list" THEN <<"(">> \o BodyOf(p.v) \o <<")">>
  ELSE <<>>

\* the parameter body whose top-level comma-separated slots are ps
BodyOf(ps) ==
  IF Len(ps) = 0 THEN <<>>
  ELSE IF Len(ps) = 1 THEN SlotText(ps[1])
  ELSE SlotText(ps[1]) \o <<",">> \o BodyOf(Tail(ps))

\* a parameter body arrives
TakeBody(ps) ==
  /\ ppc = "none"
  /\ mpc = "none"
  /\ pbody' = BodyOf(ps)
  /\ pslots' = ps
  /\ ppc' = "body"
  /\ UNCHANGED <<pout, gsmVars, afield, codecVars, engineVars, collectVars,
                 streamVars, histVars, last>>

\* Message._parse_parameters(pbody)
ParseBody ==
  /\ ppc = "body"
  /\ pout' = parse_parameters(pbody)
  /\ ppc' = "parsed"
  /\ UNCHANGED <<pbody, pslots, gsmVars, afield, codecVars, engineVars,
                 collectVars, streamVars, histVars, last>>

\* the payloads of received lines: the result codes, "NO ANSWER" as a modem
\* sends it, a command and two responses
Payloads ==
  BasicResponses
    \cup {<<"N", "O", " ", "A", "N", "S", "W", "E", "R">>,
          <<"A", "T">> \o CmdCSQ, CmdCSQ \o <<":", " ", "1", ",", "2">>,
          CmdCSQ \o <<":", " ", "O", "K">>}

\* a line arrives as a payload
TakePayload(p) ==
  /\ mpc = "none"
  /\ ppc = "none"
  /\ mstr' = p
  /\ mpc' = "str"
  /\ UNCHANGED <<msg, parsed, engineVars, collectVars, streamVars, histVars,
                 last, libVars>>

ParseNext ==
  \/ \E ps \in SlotLists : TakeBody(ps)
  \/ ParseBody
  \/ \E p \in Payloads : TakePayload(p)
  \/ FromPayload

ParseSpec == Init /\ [][ParseNext]_vars

----------------------------------------------------------------------------
\* SMS.UserDataEncoding.Default: the GSM 7-bit packing. A text is the
\* sequence of its code points, a bit string a sequence of 0 and 1, a pdu
\* a sequence of hexadecimal digits.

RECURSIVE Bin(_)
\* the binary digits of n, most significant first
Bin(n) == IF n < 2 THEN <<n>> ELSE Append(Bin(n \div 2), n % 2)

\* format(n, "0<w>b"): the binary digits of n, zero-padded to width w
FormatBin(n, w) ==
  LET b == Bin(n)
  IN IF Len(b) >= w THEN b ELSE [i \in 1 .. (w - Len(b)) |-> 0] \o b

RECURSIVE BitsVal(_, _)
\* int(bits, 2) of a non-empty bit string
BitsVal(bits, acc) ==
  IF bits = <<>> THEN acc ELSE BitsVal(Tail(bits), 2 * acc + Head(bits))

Reversed(s) == [i \in 1 .. Len(s) |-> s[Len(s) + 1 - i]]

HexDigits ==
  <<"0", "1", "2", "3", "4", "5", "6", "7", "8", "9", "A", "B", "C", "D", "E", "F">>

\* format(n, "02X") of n below 256
FormatHex(n) == <<HexDigits[(n \div 16) + 1], HexDigits[(n % 16) + 1]>>

HexVal(c) == (CHOOSE i \in 1 .. 16 : HexDigits[i] = c) - 1

RECURSIVE HexInt(_, _)
\* int(octet, 16)
HexInt(octet, acc) ==
  IF octet = <<>> THEN acc ELSE HexInt(Tail(octet), 16 * acc + HexVal(Head(octet)))

RECURSIVE SeptetBits(_, _)
\* the loop of encode: each character's seven bits are put in front
SeptetBits(chars, bits) ==
  IF chars = <<>> THEN bits
  ELSE SeptetBits(Tail(chars), FormatBin(Head(chars), 7) \o bits)

RECURSIVE EncodeOctets(_, _)
\* the list comprehension of encode for i, i - 8, ... down to 0 at least;
\* err: int() was given an empty string (ValueError)
EncodeOctets(bits, i) ==
  IF i < 0 THEN [err |-> FALSE, pdu |-> <<>>]
  ELSE LET lo == IF i - 8 > 0 THEN i - 8 ELSE 0
           chunk == SubSeq(bits, lo + 1, i)
           rest == EncodeOctets(bits, i - 8)
       IN IF chunk = <<>> \/ rest.err THEN [err |-> TRUE, pdu |-> <<>>]
          ELSE [err |-> FALSE, pdu |-> FormatHex(BitsVal(chunk, 0)) \o rest.pdu]

\* Default.encode(text)
encode(text) == EncodeOctets(SeptetBits(text, <<>>), Len(SeptetBits(text, <<>>)))

RECURSIVE OctetBits(_, _)
\* the bits of decode: each octet of the pdu from position i on, its eight
\* bits least significant first
OctetBits(pdu, i) ==
  IF i > Len(pdu) THEN <<>>
  ELSE LET hi == IF i + 1 > Len(pdu) THEN Len(pdu) ELSE i + 1
       IN Reversed(FormatBin(HexInt(SubSeq(pdu, i, hi), 0), 8)) \o OctetBits(pdu, i + 2)

RECURSIVE DecodeSeptets(_, _)
\* the loop of decode from bit i on: every seven bits give a character,
\* bits left over at the end give none
DecodeSeptets(bits, i) ==
  IF i + 6 > Len(bits) THEN <<>>
  ELSE <<BitsVal(Reversed(SubSeq(bits, i, i + 6)), 0)>> \o DecodeSeptets(bits, i + 7)

\* Default.decode(pdu)
decode(pdu) == DecodeSeptets(OctetBits(pdu, 1), 1)

----------------------------------------------------------------------------
\* SMS.AddressField

NumberTypes ==
  { <<"UNKNOWN", 0>>, <<"INTERNATIONAL", 16>>, <<"NATIONAL", 32>>,
    <<"NETWORK_SPECIFIC", 48>>, <<"SUBSCRIBER", 64>>, <<"ALPHANUMERIC", 80>>,
    <<"ABBREVIATED", 96>>, <<"RESERVED", 112>> }

NumberingPlanIdentifications ==
  { <<"UNKNOWN", 0>>, <<"ISDN", 1>>, <<"DATA", 3>>, <<"TELEX", 4>>,
    <<"NATIONAL", 8>>, <<"PRIVATE", 9>>, <<"ERMES", 10>>, <<"RESERVED", 15>> }

\* Enum(value).name; ok is FALSE when no member has the value (ValueError)
EnumName(enum, value) ==
  IF \E m \in enum : m[2] = value
  THEN [ok |-> TRUE, name |-> (CHOOSE m \in enum : m[2] = value)[1]]
  ELSE [ok |-> FALSE, name |-> ""]

RECURSIVE BitAnd(_, _)
\* a & b of naturals
BitAnd(a, b) ==
  IF a = 0 \/ b = 0 THEN 0
  ELSE (a % 2) * (b % 2) + 2 * BitAnd(a \div 2, b \div 2)

\* the object under construction once both names were looked up
AddressFieldOf(address_type, number, ton, npi) ==
  IF ~ton.ok \/ ~npi.ok THEN [ret |-> "ValueError"]
  ELSE [ret |-> "AddressField",
        address_type |-> address_type,
        number |-> number,
        type_of_number |-> ton.name,
        numbering_plan_identification |-> npi.name,
        is_international |-> (address_type = 145)]

\* AddressField(address_type, number)
AddressField(address_type, number) ==
  AddressFieldOf(address_type, number,
                 EnumName(NumberTypes, BitAnd(address_type, 112)),
                 EnumName(NumberingPlanIdentifications, BitAnd(address_type, 15)))

\* the characters of a text: 7-bit code points
Septets == {0, 97, 127}

Texts == UNION { [1 .. n -> Septets] : n \in 1 .. MaxText }

\* the type-of-address octets
TypeBytes == 0 .. 255

\* a text arrives
TakeText(t) ==
  /\ gpc = "none"
  /\ afield = NoAddressField
  /\ gtext' = t
  /\ gpc' = "text"
  /\ UNCHANGED <<gpdu, gdec, afield, parseVars, codecVars, engineVars,
                 collectVars, streamVars, histVars, last>>

\* Default.encode(gtext)
Encode ==
  /\ gpc = "text"
  /\ gpdu' = encode(gtext)
  /\ gpc' = "encoded"
  /\ UNCHANGED <<gtext, gdec, afield, parseVars, codecVars, engineVars,
                 collectVars, streamVars, histVars, last>>

\* Default.decode of the pdu that encode returned
Decode ==
  /\ gpc = "encoded"
  /\ ~gpdu.err
  /\ gdec' = decode(gpdu.pdu)
  /\ gpc' = "decoded"
  /\ UNCHANGED <<gtext, gpdu, afield, parseVars, codecVars, engineVars,
                 collectVars, streamVars, histVars, last>>

\* AddressField(address_type, "1")
NewAddressField(address_type) ==
  /\ gpc = "none"
  /\ afield = NoAddressField
  /\ afield' = AddressField(address_type, <<"1">>)
  /\ UNCHANGED <<gsmVars, parseVars, codecVars, engineVars, collectVars,
                 streamVars, histVars, last>>

SmsNext ==
  \/ \E t \in Texts : TakeText(t)
  \/ Encode
  \/ Decode
  \/ \E address_type \in TypeBytes : NewAddressField(address_type)

SmsSpec == Init /\ [][SmsNext]_vars

\* the steps the event loop takes on its own: tasks that are ready to run
\* and timers that are due
LoopStep ==
  \/ \E c \in Collector : CollectStart(c)
  \/ \E c \in Collector : CollectRead(c)
  \/ \E c \in Collector : HandleMessages(c)
  \/ \E c \in Collector : DispatchMessage(c)
  \/ \E c \in Collector : CollectNext(c)
  \/ StartAck
  \/ StartTimeout
  \/ OnReadyExec
  \/ OnReadyResume

\* Fair cooperative scheduling: the loop keeps running ready tasks and fires
\* every due timer; bytes and calls of user tasks come when they come
LiveSpec ==
  /\ Init /\ [][Next]_vars
  /\ WF_vars(LoopStep)
  /\ \A w \in Waiter : WF_vars(Timeout(w))

----------------------------------------------------------------------------
\* Properties of the protocol engine

\* the step is a call of exec_AT (from a user task, start() or on_ready)
ExecATCalled == last'.op = "exec_AT"

\* the step is a dispatch of an event to the waiter table
Dispatched == last'.op = "dispatch"

\* the payload of the dispatch the step makes
DispatchedPayload ==
  IF last'.at = "ready" THEN NoPayload
  ELSE Head(clines[CHOOSE c \in Collector : cpc'[c] # cpc[c]])

\* a write happens only in a successful exec_AT call, and only as the first
\* write or after a response line was handled
WritesSeparated ==
  /\ (written' # written) => (ExecATCalled /\ last'.res = "ok")
  /\ (ExecATCalled /\ last'.res = "ok") => (written = <<>> \/ respSinceWrite)

\* C1 as stated: an exec_AT call made while a command is in flight fails
\* with the 'previous AT command has not completed' error, writes nothing and
\* leaves the in-flight flag unchanged; two writes are separated by a
\* response event.
C1_Original ==
  [][ /\ (ExecATCalled /\ ~at_resp_complete) =>
            /\ last'.res = "CommandInFlight"
            /\ written' = written
            /\ at_resp_complete' = at_resp_complete
      /\ WritesSeparated ]_vars

\* C1 amended: an exec_AT call made while a command is in flight fails, with
\* 'Module not ready!' when the ready flag is false at the call (as for a
\* caller during the handshake of start()) and with 'previous AT command has
\* not completed' otherwise; it writes nothing and leaves the in-flight flag
\* unchanged; two writes are separated by a response event.
C1_Amended ==
  [][ /\ (ExecATCalled /\ ~at_resp_complete) =>
            /\ last'.res = (IF last'.at = "start" \/ ready
                            THEN "CommandInFlight" ELSE "NotReady")
            /\ written' = written
            /\ at_resp_complete' = at_resp_complete
      /\ WritesSeparated ]_vars

C1_Witness ==
  /\ last.op = "exec_AT" /\ last.res = "CommandInFlight"
  /\ ~at_resp_complete /\ written # <<>> /\ ~respSinceWrite

\* C3: when a wait_for call ends by timeout, the entry it registered is no
\* longer in the waiter table (the table is empty if it was the only one).
C3_Claim ==
  [][ \A w \in Waiter :
        (futs[w].st = "pending" /\ futs'[w].st = "cancelled") =>
           /\ ~InTable(waiters', w)
           /\ (waiters[futs[w].evt] = <<w>>) => (waiters'[futs[w].evt] = <<>>) ]_vars

\* C4: a dispatch resolves a pending waiter exactly when it is a dispatch of
\* the waiter's event on which its predicate is true, with the payload of
\* that dispatch, and removes it; other dispatches leave it pending in the
\* table; a resolved waiter is not in the table any more.
C4_Claim ==
  [][ Dispatched =>
        LET e == last'.at
            pl == DispatchedPayload
            d == Dispatch(e, pl, waiters, futs)
        IN \A w \in Waiter :
             /\ (futs[w].st = "pending" /\ futs[w].evt = e
                   /\ Eval(futs[w].cond, pl) = "true")
                  => /\ d.futs[w].st = "result" /\ d.futs[w].val = pl
                     /\ ~InTable(waiters', w)
             /\ (futs[w].st = "pending"
                   /\ (futs[w].evt # e \/ Eval(futs[w].cond, pl) = "false"))
                  => (futs'[w] = futs[w] /\ InTable(waiters', w))
             /\ (futs'[w].st = "result" => ~InTable(waiters', w)) ]_vars

\* C6: when an event is dispatched to several waiters and the predicate of
\* one of them raises, the dispatch does not raise, that waiter gets the
\* exception and is removed, and every other waiter of the event is resolved
\* or kept as its own predicate dictates.
C6_Claim ==
  [][ Dispatched =>
        LET e == last'.at
            pl == DispatchedPayload
            ws == waiters[e]
            d == Dispatch(e, pl, waiters, futs)
        IN (/\ Len(ws) >= 2
            /\ \E i \in 1 .. Len(ws) : Eval(futs[ws[i]].cond, pl) = "raise")
           => /\ last'.res = "ok"
              /\ \A i \in 1 .. Len(ws) :
                   LET w == ws[i]
                       r == Eval(futs[w].cond, pl)
                   IN IF r = "raise"
                      THEN d.futs[w].st = "exception" /\ ~InTable(waiters', w)
                      ELSE IF r = "true"
                      THEN d.futs[w].st = "result" /\ ~InTable(waiters', w)
                      ELSE futs[w].st = "pending" =>
                             (futs'[w] = futs[w] /\ InTable(waiters', w)) ]_vars

\* C5: on a fresh engine, start() launches the collector and writes "AT\r";
\* the ready flag another coroutine can see is true, and the ready event is
\* dispatched, only after an "OK" line was handled since that write; the
\* ready event is dispatched at most once per start().
C5_HandshakeOrder ==
  (nstarts = 1) =>
     /\ cpc[1] # "none"
     /\ written # <<>>
     /\ (spc = "handshake" => written = <<"A", "T", CR>>)
     /\ (ready => okSinceHs)
     /\ (nready > 0 => okSinceHs)
     /\ (spc \in {"on_ready", "on_ready_wait"} => okSinceHs /\ nready = 1)
     /\ nready <= 1

C5_Witness ==
  nstarts = 1 /\ ready /\ nready = 1 /\ spc = "on_ready" /\ okSinceHs

\* the lines of the code's response test, written out
C8_Completes(l) ==
  \/ l = <<"O", "K">>
  \/ l = <<"E", "R", "R", "O", "R">>
  \/ (Len(l) > 0 /\ l[1] = "+")

\* C8: a line handed to _handle_messages produces a response event, with
\* the line as payload, exactly when it is "OK", "ERROR" or starts with "+";
\* the in-flight flag is cleared only by such a line, and apart from a
\* successful exec_AT no other step changes it.
C8_Completion ==
  [][ /\ \A c \in Collector :
           (cpc[c] = "handle" /\ cpc'[c] # "handle") =>
              /\ (Dispatched /\ last'.at = "response") <=> C8_Completes(Head(clines[c]))
              /\ \A w \in Waiter :
                   (futs[w].st = "pending" /\ futs'[w].st = "result")
                     => futs'[w].val = Head(clines[c])
      /\ (Dispatched /\ last'.at = "response") =>
            \E c \in Collector : cpc[c] = "handle" /\ cpc'[c] # "handle"
      /\ (~at_resp_complete /\ at_resp_complete') =>
            /\ Dispatched /\ last'.at = "response"
            /\ C8_Completes(DispatchedPayload)
      /\ (at_resp_complete /\ ~at_resp_complete') =>
            (ExecATCalled /\ last'.res = "ok") ]_vars

C8_Witness ==
  /\ last.op = "dispatch" /\ last.at = "response" /\ last.res = "ok"
  /\ \E c \in Collector : cpc[c] = "msg" /\ Head(clines[c]) = LineCSQ
  /\ at_resp_complete /\ written # <<>> /\ respSinceWrite

C7_Claim ==
  \A w \in Waiter : (futs[w].st = "pending") ~> (futs[w].st # "pending")

\* the step is a read of _collect, made by collector c
ReadBy(c) == cpc[c] = "poll" /\ inbuf # <<>> /\ inbuf' = <<>>

\* C2: when the bytes of a line and its terminator are split across two
\* consecutive reads, at any position, the first read dispatches no event
\* and the second read hands exactly the reassembled line to the dispatch of
\* one message event.
C2_Claim ==
  [][ \A c \in Collector : ReadBy(c) =>
        /\ ~EndsWithCRLF(inbuf) => (cpc'[c] = "poll" /\ clines'[c] = <<>>)
        /\ \A l \in ModemLines :
             (cnbuf[c] = 1 /\ cbuf[c] \o inbuf = l \o CRLF)
               => (clines'[c] = <<l>> /\ cpc'[c] = "handle") ]_vars

\* C15: a dispatch of an event whose list holds a waiter that ended by
\* timeout completes without raising (it does not try to resolve or fail the
\* cancelled future), removes only waiters it resolved, failed or found
\* cancelled, and leaves the frame collector running.
C15_Claim ==
  [][ Dispatched =>
        LET e == last'.at
            ws == waiters[e]
            d == Dispatch(e, DispatchedPayload, waiters, futs)
        IN (\E i \in 1 .. Len(ws) : futs[ws[i]].st = "cancelled")
           => /\ last'.res = "ok"
              /\ \A i \in 1 .. Len(ws) :
                   ~InTable(waiters', ws[i]) =>
                      d.futs[ws[i]].st \in {"result", "exception", "cancelled"}
              /\ \A c \in Collector : (cpc[c] # "dead") => (cpc'[c] # "dead") ]_vars

\* C16: whenever an exec_AT call succeeds, the command written before it
\* has received its final result code: a line equal to "OK" or "ERROR" was
\* handled since that write.
C16_Claim ==
  [][ (ExecATCalled /\ last'.res = "ok") =>
         (written = <<>> \/ finalSinceWrite) ]_vars

\* the step is a start() call raising before its handshake was acknowledged:
\* its exec_AT was rejected, or its wait for "OK" timed out
StartFailed ==
  \/ last'.op = "exec_AT" /\ last'.at = "start" /\ last'.res # "ok"
  \/ last'.op = "start" /\ last'.at = "handshake"

\* C17: when a start() call raises before its handshake was acknowledged
\* the ready flag is false when the call returns, and the ready flag is true
\* only if some start() call has observed the handshake "OK".
C17_Claim ==
  [][ /\ StartFailed => ~ready'
      /\ ready' => (nready' > 0) ]_vars

----------------------------------------------------------------------------
\* Properties of the Message codec

RECURSIVE SameParams(_, _)
\* two parameter lists hold the same values
SameParams(a, b) ==
  /\ Len(a) = Len(b)
  /\ \A i \in 1 .. Len(a) :
       /\ a[i].k = b[i].k
       /\ IF a[i].k = "list" THEN SameParams(a[i].v, b[i].v) ELSE a[i].v = b[i].v

SameMessage(a, b) ==
  /\ a.prefix = b.prefix
  /\ a.command = b.command
  /\ a.type = b.type
  /\ a.outbound = b.outbound
  /\ SameParams(a.parameters, b.parameters)

\* C10: parsing the serialization of a constructed message gives a message
\* with the same prefix, command, type, outbound flag and parameter list.
C10_RoundTrip ==
  (mpc = "parsed") => (parsed.ret = "Message" /\ SameMessage(parsed.msg, msg))

----------------------------------------------------------------------------
\* Properties of the parameter parser

\* C11: for every well-formed parameter body the parser returns exactly one
\* parameter per top-level slot, in order: an Integer for a base-10 literal,
\* the unquoted String for a quoted literal (commas and parentheses inside
\* the quotes do not separate slots), one nested list for a parenthesized
\* group, and Empty for a slot with no literal.
C11_SlotWise ==
  (ppc = "parsed") => (~pout.err /\ SameParams(pout.params, pslots))

\* C12: for each of the eight result codes OK, CONNECT, RING, NO CARRIER,
\* ERROR, NO DIALTONE, BUSY and NO ANSWER, from_payload returns an inbound
\* BasicResponse message that has no prefix, no parameters and whose command
\* is the string itself.
C12_BasicResponse ==
  (mpc = "parsed"
     /\ mstr \in { <<"O", "K">>,
                   <<"C", "O", "N", "N", "E", "C", "T">>,
                   <<"R", "I", "N", "G">>,
                   <<"N", "O", " ", "C", "A", "R", "R", "I", "E", "R">>,
                   <<"E", "R", "R", "O", "R">>,
                   <<"N", "O", " ", "D", "I", "A", "L", "T", "O", "N", "E">>,
                   <<"B", "U", "S", "Y">>,
                   <<"N", "O", " ", "A", "N", "S", "W", "E", "R">> })
    => (parsed = Returned(Message(None, mstr, "BASIC_RESPONSE", FALSE, <<>>)))

----------------------------------------------------------------------------
\* Properties of the SMS classes

\* C13: for every text of 7-bit code points of length 1 up to MaxText,
\* lengths 7 and 8 included, Default.encode succeeds and decoding what it
\* returned gives the text back, with no added or dropped character.
C13_RoundTrip ==
  /\ (gpc = "encoded") => ~gpdu.err
  /\ (gpc = "decoded") => (gdec = gtext)

\* C14: for every type byte in 0..255 constructing an AddressField succeeds
\* and yields a number type name and a numbering plan name of the
\* enumerations, and is_international is true exactly for 0x91, for which
\* the numbering plan is ISDN.
C14_FailsClosed ==
  (afield # NoAddressField) =>
     /\ afield.ret = "AddressField"
     /\ afield.type_of_number \in {m[1] : m \in NumberTypes}
     /\ afield.numbering_plan_identification
          \in {m[1] : m \in NumberingPlanIdentifications}
     /\ afield.is_international = (afield.address_type = 145)
     /\ afield.is_international => (afield.numbering_plan_identification = "ISDN")

====
